---------------------------- MODULE Spec2Model ----------------------------
(***************************************************************************)
(* A model of csv_processor.py: the filter operators, the aggregation      *)
(* functions, CSVProcessor (read_csv, filter_data, aggregate_data), the    *)
(* two condition parsers and main.                                         *)
(*                                                                         *)
(* Python strings are sequences of one-character strings, so that strip,   *)
(* split, float and the lexicographic order are computed, not assumed.     *)
(* A Python call evaluates to an outcome: Return(v) or Raise(exc, msg).    *)
(* A float is an exact rational [num, den] (rounding is not modelled).     *)
(***************************************************************************)
EXTENDS Integers, Sequences, FiniteSets, TLC

VARIABLES
    pc,         \* position of main: "start", "read", "filter", "aggregate", "exit"
                \* ("idle" where main is not run)
    argv,       \* main: [filter, aggregate], each a string or None (argparse, 252-255)
    file,       \* main: the input file at args.filepath
    headers,    \* main: local headers
    data,       \* main: local data
    stdout,     \* main: what was printed, in order
    exit_code,  \* main: <<>> while it runs, then <<0>> (return) or <<1>> (sys.exit(1))
    call,       \* a direct call of one function: its arguments
    ret         \* the outcome of that call, Pending before it

vars == <<pc, argv, file, headers, data, stdout, exit_code, call, ret>>

mainVars == <<pc, argv, file, headers, data, stdout, exit_code>>

---------------------------------------------------------------------------
(* Bounds of the model.                                                    *)

\* longest operand (cell / target) of a direct operator call
MaxOperandLen == 3

\* longest condition string of a direct parser call
MaxConditionLen == 5

\* most rows of a direct call of filter_data or aggregate_data
MaxRows == 3

\* most data records of the input file of main
MaxFileRows == 2

---------------------------------------------------------------------------
(* Python values and outcomes.                                             *)

\* Python's None: a one-element tuple that is no string of characters
None == <<"NoneType">>

\* no call made yet
Pending == [exc |-> "pending", val |-> <<>>]

Return(v) == [exc |-> "", val |-> v]

Raise(e, msg) == [exc |-> e, val |-> msg]

Raised(o) == o.exc \notin {"", "pending"}

Returned(o) == o.exc = ""

\* printable ASCII in code point order, 32 .. 126 (the double quote, the
\* backslash and the back quote, which no string of the model holds, are named)
Ascii ==
    <<" ", "!", "dquote", "#", "$", "%", "&", "'", "(", ")", "*", "+", ",", "-", ".", "/",
      "0", "1", "2", "3", "4", "5", "6", "7", "8", "9", ":", ";", "<", "=", ">", "?",
      "@", "A", "B", "C", "D", "E", "F", "G", "H", "I", "J", "K", "L", "M", "N", "O",
      "P", "Q", "R", "S", "T", "U", "V", "W", "X", "Y", "Z", "[", "bslash", "]", "^", "_",
      "bquote", "a", "b", "c", "d", "e", "f", "g", "h", "i", "j", "k", "l", "m", "n", "o",
      "p", "q", "r", "s", "t", "u", "v", "w", "x", "y", "z", "{", "|", "}", "~">>

\* the code point of a character
Ord == [c \in {Ascii[i] : i \in 1..Len(Ascii)} |->
          31 + (CHOOSE i \in 1..Len(Ascii) : Ascii[i] = c)]

\* the characters str.strip() and float() skip at both ends
Whitespace == {" ", "\t", "\n"}

Digits == {"0", "1", "2", "3", "4", "5", "6", "7", "8", "9"}

\* all strings over alphabet A of length 0 .. n
StringsUpTo(A, n) == UNION {[1..k -> A] : k \in 0..n}

RECURSIVE lstrip(_)
lstrip(s) ==
    IF s = <<>> THEN s
    ELSE IF Head(s) \in Whitespace THEN lstrip(Tail(s)) ELSE s

RECURSIVE rstrip(_)
rstrip(s) ==
    IF s = <<>> THEN s
    ELSE IF s[Len(s)] \in Whitespace THEN rstrip(SubSeq(s, 1, Len(s) - 1)) ELSE s

\* str.strip()
strip(s) == rstrip(lstrip(s))

\* str(x) of a string or None
str(x) == IF x = None THEN <<"N", "o", "n", "e">> ELSE x

\* s < t on Python strings: code point order, a proper prefix is smaller
RECURSIVE StrLess(_, _)
StrLess(s, t) ==
    IF t = <<>> THEN FALSE
    ELSE IF s = <<>> THEN TRUE
    ELSE IF Head(s) # Head(t) THEN Ord[Head(s)] < Ord[Head(t)]
    ELSE StrLess(Tail(s), Tail(t))

---------------------------------------------------------------------------
(* Numbers.  A Python number is [t, num, den]: t is "int" or "float", the  *)
(* value is num / den in lowest terms, den > 0.                            *)

RECURSIVE Gcd(_, _)
Gcd(a, b) == IF b = 0 THEN a ELSE Gcd(b, a % b)

Abs(n) == IF n < 0 THEN -n ELSE n

PyFloat(n, d) ==
    LET g == Gcd(Abs(n), d)
    IN  [t |-> "float", num |-> n \div g, den |-> d \div g]

PyInt(n) == [t |-> "int", num |-> n, den |-> 1]

---------------------------------------------------------------------------
(* float(x).  The decimal form only: [sign] digits [. digits], at least    *)
(* one digit, whitespace skipped at both ends.  The alphabets of the model *)
(* hold no exponent, underscore, "inf" or "nan" characters.                *)

RECURSIVE Pow10(_)
Pow10(n) == IF n = 0 THEN 1 ELSE 10 * Pow10(n - 1)

\* the digits of s as a natural number, the point skipped
RECURSIVE DigitsValue(_, _)
DigitsValue(s, acc) ==
    IF s = <<>> THEN acc
    ELSE IF Head(s) = "." THEN DigitsValue(Tail(s), acc)
    ELSE DigitsValue(Tail(s), 10 * acc + (Ord[Head(s)] - 48))

IsDecimal(s) ==
    /\ \A i \in 1..Len(s) : s[i] \in Digits \cup {"."}
    /\ Cardinality({i \in 1..Len(s) : s[i] = "."}) <= 1
    /\ \E i \in 1..Len(s) : s[i] \in Digits

\* the number of digits after the point
FracDigits(s) ==
    IF \E i \in 1..Len(s) : s[i] = "."
    THEN Len(s) - (CHOOSE i \in 1..Len(s) : s[i] = ".")
    ELSE 0

Float(x) ==
    IF x = None
    THEN Raise("TypeError", "float() argument must be a string or a real number")
    ELSE LET t == strip(x)
             signed == t # <<>> /\ Head(t) \in {"+", "-"}
             body == IF signed THEN Tail(t) ELSE t
             sign == IF signed /\ Head(t) = "-" THEN -1 ELSE 1
         IN  IF IsDecimal(body)
             THEN Return(PyFloat(sign * DigitsValue(body, 0), Pow10(FracDigits(body))))
             ELSE Raise("ValueError", "could not convert string to float")

\* p < q on floats
NumLess(p, q) == p.num * q.den < q.num * p.den

NumEq(p, q) == p.num * q.den = q.num * p.den

---------------------------------------------------------------------------
(* The filter operators.                                                   *)

\* mutant: equality that coerces numeric operands
EqualsOperator_apply_Coercing(value, target) ==
    IF Returned(Float(value)) /\ Returned(Float(target))
    THEN Return(NumEq(Float(value).val, Float(target).val))
    ELSE Return(strip(str(value)) = strip(str(target)))

\* EqualsOperator.apply
EqualsOperator_apply(value, target) ==
    Return(strip(str(value)) = strip(str(target)))

\* mutant: only ValueError is caught
ComparisonCaught_ValueErrorOnly == {"ValueError"}

\* the exceptions the comparison operators catch
ComparisonCaught == {"ValueError", "TypeError"}

\* the try block of a comparison: float(value) first, then float(target)
TryNumeric(value, target, greater) ==
    LET a == Float(value)
        b == Float(target)
    IN  IF Raised(a) THEN a
        ELSE IF Raised(b) THEN b
        ELSE Return(IF greater THEN NumLess(b.val, a.val) ELSE NumLess(a.val, b.val))

\* GreaterThanOperator.apply
GreaterThanOperator_apply(value, target) ==
    LET t == TryNumeric(value, target, TRUE)
    IN  IF Raised(t) /\ t.exc \in ComparisonCaught
        THEN Return(StrLess(str(target), str(value)))
        ELSE t

\* LessThanOperator.apply
LessThanOperator_apply(value, target) ==
    LET t == TryNumeric(value, target, FALSE)
    IN  IF Raised(t) /\ t.exc \in ComparisonCaught
        THEN Return(StrLess(str(value), str(target)))
        ELSE t

---------------------------------------------------------------------------
(* Direct calls of the operators.                                          *)

OperandChars == {" ", "1", "2", ".", "a"}

Operands == StringsUpTo(OperandChars, MaxOperandLen)

MainIdle ==
    /\ pc = "idle"
    /\ argv = [filter |-> None, aggregate |-> None]
    /\ file = <<>>
    /\ headers = <<>>
    /\ data = <<>>
    /\ stdout = <<>>
    /\ exit_code = <<>>

InitOperators ==
    /\ MainIdle
    /\ call \in [value : Operands \cup {None}, target : Operands]
    /\ ret = [fn |-> "", out |-> Pending]

ApplyEquals ==
    /\ ret.fn = ""
    /\ ret' = [fn |-> "eq", out |-> EqualsOperator_apply(call.value, call.target)]
    /\ UNCHANGED <<mainVars, call>>

ApplyGreaterThan ==
    /\ ret.fn = ""
    /\ ret' = [fn |-> "gt", out |-> GreaterThanOperator_apply(call.value, call.target)]
    /\ UNCHANGED <<mainVars, call>>

ApplyLessThan ==
    /\ ret.fn = ""
    /\ ret' = [fn |-> "lt", out |-> LessThanOperator_apply(call.value, call.target)]
    /\ UNCHANGED <<mainVars, call>>

NextOperators == ApplyEquals \/ ApplyGreaterThan \/ ApplyLessThan

SpecOperators == InitOperators /\ [][NextOperators]_vars

---------------------------------------------------------------------------
(* What the operator claims speak of, stated without the code's helpers.   *)

\* s with the whitespace at both ends removed: from its first to its last
\* character that is no whitespace
Trimmed(s) ==
    LET solid == {i \in 1..Len(s) : s[i] \notin Whitespace}
    IN  IF solid = {} THEN <<>>
        ELSE SubSeq(s, CHOOSE i \in solid : \A j \in solid : i <= j,
                       CHOOSE i \in solid : \A j \in solid : j <= i)

\* s before t in the lexicographic order of code points
LexLess(s, t) ==
    \E k \in 0..Len(s) :
        /\ k <= Len(t)
        /\ \A i \in 1..k : s[i] = t[i]
        /\ \/ k = Len(s) /\ k < Len(t)
           \/ k < Len(s) /\ k < Len(t) /\ Ord[s[k + 1]] < Ord[t[k + 1]]

ParsesAsNumber(x) == Returned(Float(x))

BothNumeric == ParsesAsNumber(call.value) /\ ParsesAsNumber(call.target)

\* C6: GreaterThanOperator.apply and LessThanOperator.apply return a boolean
\* for every pair of operands and never raise: the numeric comparison when
\* both operands parse as numbers, otherwise the lexicographic comparison of
\* the two raw, untrimmed operand strings.
C6_ComparisonDualMode ==
    ret.fn \in {"gt", "lt"} =>
        /\ Returned(ret.out)
        /\ ret.out.val \in BOOLEAN
        /\ BothNumeric =>
              ret.out.val = IF ret.fn = "gt"
                            THEN NumLess(Float(call.target).val, Float(call.value).val)
                            ELSE NumLess(Float(call.value).val, Float(call.target).val)
        /\ ~BothNumeric =>
              ret.out.val = IF ret.fn = "gt"
                            THEN LexLess(str(call.target), str(call.value))
                            ELSE LexLess(str(call.value), str(call.target))

\* C6 witness: a greater-than call fell back to the string order, and the
\* raw operands compare differently from the trimmed ones.
C6_Witness ==
    /\ ret.fn = "gt"
    /\ ~BothNumeric
    /\ ret.out = Return(TRUE)
    /\ ~LexLess(Trimmed(str(call.target)), Trimmed(str(call.value)))

\* C7: EqualsOperator.apply is true exactly when the two operands are the
\* same string once the whitespace at both ends is removed; operands that are
\* equal as numbers but differ as text are not equal; the result is the same
\* with the operands exchanged.
C7_EqualsTrimmedText ==
    ret.fn = "eq" =>
        /\ Returned(ret.out)
        /\ ret.out.val = (Trimmed(str(call.value)) = Trimmed(str(call.target)))
        /\ (BothNumeric /\ Trimmed(call.value) # Trimmed(call.target)) =>
              ret.out.val = FALSE
        /\ ret.out = EqualsOperator_apply(call.target, call.value)

\* C7 witness: an equality call on operands equal as numbers, different as text.
C7_Witness ==
    /\ ret.fn = "eq"
    /\ BothNumeric
    /\ NumEq(Float(call.value).val, Float(call.target).val)
    /\ Trimmed(call.value) # Trimmed(call.target)
    /\ ret.out = Return(FALSE)

---------------------------------------------------------------------------
(* The condition parsers.                                                  *)

\* `sub in s` and str.find: the lowest index at which sub occurs in s, else 0
Find(s, sub) ==
    LET hits == {i \in 1..(Len(s) - Len(sub) + 1) :
                    SubSeq(s, i, i + Len(sub) - 1) = sub}
    IN  IF hits = {} THEN 0 ELSE CHOOSE i \in hits : \A j \in hits : i <= j

Contains(s, sub) == Find(s, sub) # 0

\* s.split(sub, 1): one part when sub does not occur, else the text before and
\* the text after its first occurrence
Split1(s, sub) ==
    LET i == Find(s, sub)
    IN  IF i = 0 THEN <<s>>
        ELSE <<SubSeq(s, 1, i - 1), SubSeq(s, i + Len(sub), Len(s))>>

\* the list `operators` of parse_filter_condition, in its order
operators ==
    << <<">", "=">>, <<"<", "=">>, <<">">>, <<"<">>, <<"=">>, <<"!", "=">> >>

\* the dict op_mapping of parse_filter_condition: token -> tag, None when absent
op_mapping(op) ==
    CASE op = <<"=">> -> <<"e", "q">>
      [] op = <<">">> -> <<"g", "t">>
      [] op = <<"<">> -> <<"l", "t">>
      [] op = <<">", "=">> -> <<"g", "t", "e">>
      [] op = <<"<", "=">> -> <<"l", "t", "e">>
      [] op = <<"!", "=">> -> <<"n", "e">>
      [] OTHER -> None

\* the for loop of parse_filter_condition from the i-th operator on
RECURSIVE ParseFilterFrom(_, _)
ParseFilterFrom(condition, i) ==
    IF i > Len(operators)
    THEN Raise("ValueError", <<"Invalid filter condition format: ", condition>>)
    ELSE LET op == operators[i]
             parts == Split1(condition, op)
         IN  IF Contains(condition, op) /\ Len(parts) = 2 /\ op_mapping(op) # None
             THEN Return(<<strip(parts[1]), op_mapping(op), strip(parts[2])>>)
             ELSE ParseFilterFrom(condition, i + 1)

\* parse_filter_condition
parse_filter_condition(condition) == ParseFilterFrom(condition, 1)

\* a parser that takes only conditions with exactly one "=": the strict
\* reading of the check of line 239
parse_aggregation_condition_OneEquals(condition) ==
    LET parts == Split1(condition, <<"=">>)
    IN  IF ~Contains(condition, <<"=">>) \/ Contains(parts[2], <<"=">>)
        THEN Raise("ValueError",
                   <<"Invalid aggregation condition format: ", condition>>)
        ELSE Return(<<strip(parts[1]), strip(parts[2])>>)

\* parse_aggregation_condition
parse_aggregation_condition(condition) ==
    IF ~Contains(condition, <<"=">>)
    THEN Raise("ValueError", <<"Invalid aggregation condition format: ", condition>>)
    ELSE LET parts == Split1(condition, <<"=">>)
         IN  IF Len(parts) # 2
             THEN Raise("ValueError",
                        <<"Invalid aggregation condition format: ", condition>>)
             ELSE Return(<<strip(parts[1]), strip(parts[2])>>)

---------------------------------------------------------------------------
(* Direct calls of the parsers.                                            *)

ConditionChars == {" ", "a", "1", "!", "<", "=", ">"}

Conditions == StringsUpTo(ConditionChars, MaxConditionLen)

InitParse ==
    /\ MainIdle
    /\ call \in [condition : Conditions]
    /\ ret = [fn |-> "", out |-> Pending]

ParseFilterCondition ==
    /\ ret.fn = ""
    /\ ret' = [fn |-> "parse_filter_condition",
               out |-> parse_filter_condition(call.condition)]
    /\ UNCHANGED <<mainVars, call>>

ParseAggregationCondition ==
    /\ ret.fn = ""
    /\ ret' = [fn |-> "parse_aggregation_condition",
               out |-> parse_aggregation_condition(call.condition)]
    /\ UNCHANGED <<mainVars, call>>

NextParse == ParseFilterCondition \/ ParseAggregationCondition

SpecParse == InitParse /\ [][NextParse]_vars

\* the six tokens and the tag the fixed table gives each
FilterTokens ==
    { <<">", "=">>, <<"<", "=">>, <<">">>, <<"<">>, <<"=">>, <<"!", "=">> }

TableTag(tok) ==
    CASE tok = <<"=">> -> <<"e", "q">>
      [] tok = <<">">> -> <<"g", "t">>
      [] tok = <<"<">> -> <<"l", "t">>
      [] tok = <<">", "=">> -> <<"g", "t", "e">>
      [] tok = <<"<", "=">> -> <<"l", "t", "e">>
      [] tok = <<"!", "=">> -> <<"n", "e">>

TokenChars == {">", "<", "=", "!"}

PlainText(s) == \A i \in 1..Len(s) : s[i] \notin TokenChars

\* C4: for each of the six tokens, a condition made of a column text, the
\* token and a value text (both free of > < = ! and not blank, with any
\* whitespace around them) parses to (trimmed column, the token's tag,
\* trimmed value).
C4_TokenTable ==
    ret.fn = "parse_filter_condition" =>
        \A tok \in FilterTokens :
            \A i \in 1..(Len(call.condition) - Len(tok) + 1) :
                LET c == SubSeq(call.condition, 1, i - 1)
                    v == SubSeq(call.condition, i + Len(tok), Len(call.condition))
                IN  (/\ SubSeq(call.condition, i, i + Len(tok) - 1) = tok
                     /\ PlainText(c) /\ Trimmed(c) # <<>>
                     /\ PlainText(v) /\ Trimmed(v) # <<>>)
                    => /\ Returned(ret.out)
                       /\ ret.out.val = <<Trimmed(c), TableTag(tok), Trimmed(v)>>

\* C5: parse_filter_condition raises 'Invalid filter condition format' for
\* every input that holds none of the six tokens, and never returns a triple
\* whose column or value is empty.
C5_RejectsEmptyParts ==
    ret.fn = "parse_filter_condition" =>
        /\ (\A tok \in FilterTokens : ~Contains(call.condition, tok)) =>
              ret.out = Raise("ValueError",
                              <<"Invalid filter condition format: ", call.condition>>)
        /\ Returned(ret.out) => ret.out.val[1] # <<>> /\ ret.out.val[3] # <<>>

\* the positions of "=" in s
EqualsAt(s) == {i \in 1..Len(s) : s[i] = "="}

\* the position of the first "=" in s, which holds one
FirstEquals(s) == CHOOSE i \in EqualsAt(s) : \A j \in EqualsAt(s) : i <= j

---------------------------------------------------------------------------
(* sum, min and max of a list of floats.                                   *)

\* sum(values) of floats
RECURSIVE Sum(_)
Sum(values) ==
    IF values = <<>> THEN PyInt(0)
    ELSE LET h == Head(values)
             r == Sum(Tail(values))
         IN  PyFloat(h.num * r.den + r.num * h.den, h.den * r.den)

\* min(values) of a non-empty list: the first of the smallest
RECURSIVE Min(_)
Min(values) ==
    IF Len(values) = 1 THEN values[1]
    ELSE LET r == Min(Tail(values))
         IN  IF NumLess(r, Head(values)) THEN r ELSE Head(values)

\* max(values) of a non-empty list: the first of the largest
RECURSIVE Max(_)
Max(values) ==
    IF Len(values) = 1 THEN values[1]
    ELSE LET r == Max(Tail(values))
         IN  IF NumLess(Head(values), r) THEN r ELSE Head(values)

---------------------------------------------------------------------------
(* The aggregation functions.                                              *)

\* AverageAggregation.calculate
AverageAggregation_calculate(values) ==
    IF values = <<>> THEN PyFloat(0, 1)
    ELSE PyFloat(Sum(values).num, Sum(values).den * Len(values))

\* MinAggregation.calculate
MinAggregation_calculate(values) ==
    IF values = <<>> THEN PyInt(0) ELSE Min(values)

\* MaxAggregation.calculate
MaxAggregation_calculate(values) ==
    IF values = <<>> THEN PyInt(0) ELSE Max(values)

---------------------------------------------------------------------------
(* CSVProcessor.  A row is a function from column names to cells; a cell   *)
(* is a string, or None where csv.DictReader found no field.               *)

EQ == <<"e", "q">>

GT == <<"g", "t">>

LT == <<"l", "t">>

AVG == <<"a", "v", "g">>

MIN == <<"m", "i", "n">>

MAX == <<"m", "a", "x">>

\* the keys of self.filter_operators
filter_operators == {EQ, GT, LT}

\* the keys of self.aggregation_functions
aggregation_functions == {AVG, MIN, MAX}

\* self.filter_operators[operator].apply(value, target)
filter_op_apply(operator, value, target) ==
    CASE operator = EQ -> EqualsOperator_apply(value, target)
      [] operator = GT -> GreaterThanOperator_apply(value, target)
      [] operator = LT -> LessThanOperator_apply(value, target)

\* self.aggregation_functions[function].calculate(values)
agg_func_calculate(function, values) ==
    CASE function = AVG -> AverageAggregation_calculate(values)
      [] function = MIN -> MinAggregation_calculate(values)
      [] function = MAX -> MaxAggregation_calculate(values)

\* row[column]
Subscript(row, column) ==
    IF column \in DOMAIN row THEN Return(row[column]) ELSE Raise("KeyError", column)

ColumnNotFound(column) ==
    Raise("ValueError", <<"Column '", column, "' not found in CSV">>)

\* mutant: the membership test of the filter loop always passes
ColumnInRow_Unchecked(column, row) == TRUE

\* `column in row` of the filter loop
ColumnInRow(column, row) == column \in DOMAIN row

\* mutant: the kept row is put in front
Collect_InFront(filtered_data, row) == <<row>> \o filtered_data

\* filtered_data.append(row)
Collect(filtered_data, row) == Append(filtered_data, row)

\* the for loop of filter_data from row i on
RECURSIVE FilterLoop(_, _, _, _, _, _)
FilterLoop(data_, column, operator, value, i, filtered_data) ==
    IF i > Len(data_) THEN Return(filtered_data)
    ELSE IF ~ColumnInRow(column, data_[i]) THEN ColumnNotFound(column)
    ELSE LET cell == Subscript(data_[i], column)
             keep == IF Raised(cell) THEN cell
                     ELSE filter_op_apply(operator, cell.val, value)
         IN  IF Raised(keep) THEN keep
             ELSE FilterLoop(data_, column, operator, value, i + 1,
                             IF keep.val THEN Collect(filtered_data, data_[i])
                             ELSE filtered_data)

\* mutant: the column is looked up in the first row before the operator is
\* checked
filter_data_ColumnFirst(data_, column, operator, value) ==
    IF data_ # <<>> /\ ~ColumnInRow(column, data_[1]) THEN ColumnNotFound(column)
    ELSE IF operator \notin filter_operators
    THEN Raise("ValueError", <<"Unsupported filter operator: ", operator>>)
    ELSE FilterLoop(data_, column, operator, value, 1, <<>>)

\* CSVProcessor.filter_data
filter_data(data_, column, operator, value) ==
    IF operator \notin filter_operators
    THEN Raise("ValueError", <<"Unsupported filter operator: ", operator>>)
    ELSE FilterLoop(data_, column, operator, value, 1, <<>>)

\* the exceptions the extraction loop of aggregate_data catches
AggregateCaught == {"ValueError"}

\* the for loop of aggregate_data from row i on
RECURSIVE ExtractLoop(_, _, _, _)
ExtractLoop(data_, column, i, values) ==
    IF i > Len(data_) THEN Return(values)
    ELSE LET cell == Subscript(data_[i], column)
             value == IF Raised(cell) THEN cell ELSE Float(cell.val)
         IN  IF Raised(value)
             THEN IF value.exc \in AggregateCaught
                  THEN Raise("ValueError",
                             <<"Non-numeric value found in column '", column, "': ",
                               str(data_[i][column])>>)
                  ELSE value
             ELSE ExtractLoop(data_, column, i + 1, Append(values, value.val))

\* mutant: aggregate_data without its empty-dataset return, so that data[0]
\* fails on an empty list
aggregate_data_NoEmptyReturn(data_, column, function) ==
    IF function \notin aggregation_functions
    THEN Raise("ValueError", <<"Unsupported aggregation function: ", function>>)
    ELSE IF data_ = <<>> THEN Raise("IndexError", "list index out of range")
    ELSE IF column \notin DOMAIN data_[1] THEN ColumnNotFound(column)
    ELSE LET values == ExtractLoop(data_, column, 1, <<>>)
         IN  IF Raised(values) THEN values
             ELSE Return(agg_func_calculate(function, values.val))

\* CSVProcessor.aggregate_data
aggregate_data(data_, column, function) ==
    IF function \notin aggregation_functions
    THEN Raise("ValueError", <<"Unsupported aggregation function: ", function>>)
    ELSE IF data_ = <<>> THEN Return(PyInt(0))
    ELSE IF column \notin DOMAIN data_[1] THEN ColumnNotFound(column)
    ELSE LET values == ExtractLoop(data_, column, 1, <<>>)
         IN  IF Raised(values) THEN values
             ELSE Return(agg_func_calculate(function, values.val))

---------------------------------------------------------------------------
(* Direct calls of filter_data and aggregate_data.                         *)

ColA == <<"a">>

ColB == <<"b">>

\* a column no row has
ColZ == <<"z">>

GTE == <<"g", "t", "e">>

LTE == <<"l", "t", "e">>

NE == <<"n", "e">>

\* the rows of the direct calls: every row has column a, some have column b
RowsOver(cells) == [{ColA} -> cells] \cup [{ColA, ColB} -> cells]

\* all sequences over S of length 0 .. n
SeqsUpTo(S, n) == UNION {[1..k -> S] : k \in 0..n}

FilterCells == {<<"1", "0">>, <<" ", "x">>, None}

FilterTargets == {<<"2">>, <<"x", " ">>, <<"N", "o", "n", "e">>}

InitFilter ==
    /\ MainIdle
    /\ call \in [data : SeqsUpTo(RowsOver(FilterCells), MaxRows),
                 column : {ColA, ColB, ColZ},
                 operator : {EQ, GT, LT, GTE, LTE, NE},
                 value : FilterTargets]
    /\ ret = [fn |-> "", out |-> Pending]

\* processor.filter_data(data, column, operator, value); the function assigns
\* to neither its argument list nor a row of it
FilterData ==
    /\ ret.fn = ""
    /\ ret' = [fn |-> "filter_data",
               out |-> filter_data(call.data, call.column, call.operator, call.value)]
    /\ UNCHANGED <<mainVars, call>>

NextFilter == FilterData

SpecFilter == InitFilter /\ [][NextFilter]_vars

AggregateCells == {<<"1", "0">>, <<"2">>, <<"x">>, None}

SUM == <<"s", "u", "m">>

InitAggregate ==
    /\ MainIdle
    /\ call \in [data : SeqsUpTo(RowsOver(AggregateCells), MaxRows),
                 column : {ColA, ColB, ColZ},
                 function : {AVG, MIN, MAX, SUM}]
    /\ ret = [fn |-> "", out |-> Pending]

\* processor.aggregate_data(data, column, function)
AggregateData ==
    /\ ret.fn = ""
    /\ ret' = [fn |-> "aggregate_data",
               out |-> aggregate_data(call.data, call.column, call.function)]
    /\ UNCHANGED <<mainVars, call>>

NextAggregate == AggregateData

SpecAggregate == InitAggregate /\ [][NextAggregate]_vars

---------------------------------------------------------------------------
(* The claims about filter_data and aggregate_data.                        *)

\* the k-th smallest element of a set of numbers
KthSmallest(S, k) == CHOOSE i \in S : Cardinality({j \in S : j < i}) = k - 1

\* the rows of rows whose index is in keep, in their order in rows
Selection(rows, keep) ==
    [k \in 1..Cardinality(keep) |-> rows[KthSmallest(keep, k)]]

\* the indices of the rows whose cell in column satisfies the operator's
\* predicate against target
Satisfying(rows, column, operator, target) ==
    {i \in 1..Len(rows) : filter_op_apply(operator, rows[i][column], target).val}

InEveryRow(column, rows) == \A i \in 1..Len(rows) : column \in DOMAIN rows[i]

InNoRow(column, rows) == \A i \in 1..Len(rows) : column \notin DOMAIN rows[i]

\* C1: with a column every row has and an operator tag among eq, gt, lt,
\* filter_data returns exactly the rows whose cell satisfies the predicate,
\* in their order in data, and data is the same before and after the call.
C1_FilterSelectsInOrder ==
    [][(/\ ret'.fn = "filter_data"
        /\ call.operator \in {EQ, GT, LT}
        /\ InEveryRow(call.column, call.data))
       => /\ Returned(ret'.out)
          /\ ret'.out.val =
               Selection(call.data,
                         Satisfying(call.data, call.column, call.operator, call.value))
          /\ call'.data = call.data]_vars

\* C1 witness: a call kept two rows and dropped one that stood before them.
C1_Witness ==
    /\ ret.fn = "filter_data"
    /\ Returned(ret.out)
    /\ InEveryRow(call.column, call.data)
    /\ Len(ret.out.val) = 2
    /\ ret.out.val[1] # ret.out.val[2]
    /\ Len(call.data) > 2
    /\ ret.out.val[1] # call.data[1]

\* C3: with an operator tag that is not eq, gt or lt, filter_data raises
\* 'Unsupported filter operator' and returns no rows, whatever the rows
\* (none or some) and the column (present or absent).
C3_UnsupportedOperator ==
    (ret.fn = "filter_data" /\ call.operator \notin {EQ, GT, LT}) =>
        ret.out = Raise("ValueError", <<"Unsupported filter operator: ", call.operator>>)

\* C3 witness: tag gte on rows that lack the column.
C3_Witness ==
    /\ ret.fn = "filter_data"
    /\ call.operator = GTE
    /\ call.data # <<>>
    /\ InNoRow(call.column, call.data)
    /\ ret.out.exc = "ValueError"
    /\ ret.out.val[1] = "Unsupported filter operator: "

\* C10 as stated: with a supported tag and a column no row has, filter_data
\* raises "Column '<name>' not found in CSV", whatever the number of rows.
C10_ColumnNotFound_AnyRows ==
    (/\ ret.fn = "filter_data"
     /\ call.operator \in {EQ, GT, LT}
     /\ InNoRow(call.column, call.data))
    => ret.out = ColumnNotFound(call.column)

\* C10 amended: with a supported tag and a column no row has, filter_data
\* raises "Column '<name>' not found in CSV" when there is at least one row,
\* and returns the empty list when there is none.
C10_ColumnNotFound_SomeRow ==
    (/\ ret.fn = "filter_data"
     /\ call.operator \in {EQ, GT, LT}
     /\ InNoRow(call.column, call.data))
    => ret.out = IF call.data = <<>>
                 THEN Return(<<>>)
                 ELSE Raise("ValueError",
                            <<"Column '", call.column, "' not found in CSV">>)

\* C10 witness: a supported tag, two rows, neither with the column.
C10_Witness ==
    /\ ret.fn = "filter_data"
    /\ call.operator = GT
    /\ Len(call.data) = 2
    /\ InNoRow(call.column, call.data)
    /\ ret.out.exc = "ValueError"

\* the index of the first row whose cell in column is no number
FirstNonNumeric(rows, column) ==
    CHOOSE i \in 1..Len(rows) :
        /\ ~ParsesAsNumber(rows[i][column])
        /\ \A j \in 1..(i - 1) : ParsesAsNumber(rows[j][column])

\* C8: with a registered function and rows that all have the column,
\* aggregate_data raises 'Non-numeric value found' naming the raw text of the
\* first cell, in row order, that is no number, and returns no result.
C8_NonNumericValue ==
    (/\ ret.fn = "aggregate_data"
     /\ call.function \in {AVG, MIN, MAX}
     /\ call.data # <<>>
     /\ InEveryRow(call.column, call.data)
     /\ \E i \in 1..Len(call.data) : ~ParsesAsNumber(call.data[i][call.column]))
    => ret.out =
         Raise("ValueError",
               <<"Non-numeric value found in column '", call.column, "': ",
                 str(call.data[FirstNonNumeric(call.data, call.column)][call.column])>>)

---------------------------------------------------------------------------
(* read_csv and the presenters.  The file is [kind, records]: kind is       *)
(* "missing" (no such path), "unreadable" (any other failure of open or    *)
(* decode) or "csv", and records are the file's CSV records, each a        *)
(* sequence of fields, the first one the header.  csv.DictReader skips     *)
(* empty records and gives a record with fewer fields than the header None *)
(* (its restval) for each missing field.  Headers are distinct and no      *)
(* record is longer than the header.                                       *)

\* the position of header h in headers
IndexOf(hs, h) == CHOOSE j \in 1..Len(hs) : hs[j] = h

\* one row of csv.DictReader
DictRow(hs, record) ==
    [h \in {hs[j] : j \in 1..Len(hs)} |->
        IF IndexOf(hs, h) <= Len(record) THEN record[IndexOf(hs, h)] ELSE None]

\* CSVProcessor.read_csv: (headers, data)
read_csv(f) ==
    CASE f.kind = "missing" ->
           Raise("FileNotFoundError", <<"File not found: ", "filepath">>)
      [] f.kind = "unreadable" ->
           Raise("Exception", <<"Error reading CSV file: ", "e">>)
      [] OTHER ->
           IF f.records = <<>> THEN Return(<< <<>>, <<>> >>)
           ELSE Return(<<f.records[1],
                         [i \in 1..(Len(f.records) - 1) |->
                             DictRow(f.records[1], f.records[i + 1])]>>)

Line(kind, body) == [kind |-> kind, body |-> body]

\* CSVProcessor.display_table: what it prints (the grid is not laid out)
display_table(hs, rows) ==
    IF rows = <<>> THEN Line("text", <<"No data to display.">>)
    ELSE Line("table",
              <<hs, [i \in 1..Len(rows) |->
                       [j \in 1..Len(hs) |->
                           IF hs[j] \in DOMAIN rows[i] THEN rows[i][hs[j]] ELSE <<>>]]>>)

\* str.upper()
upper(s) ==
    [i \in 1..Len(s) |->
        IF Ord[s[i]] >= 97 /\ Ord[s[i]] <= 122 THEN Ascii[Ord[s[i]] - 63] ELSE s[i]]

\* CSVProcessor.display_aggregation_result: the summary block
display_aggregation_result(column, function, result) ==
    Line("aggregation", <<upper(function), column, result>>)

---------------------------------------------------------------------------
(* main.  exit_code is <<>> while main runs and <<n>> once the process     *)
(* ended with status n.                                                    *)

\* `not x` of an optional string argument
Falsy(x) == x = None \/ x = <<>>

\* mutant: the filtered rows are not bound to data
FilteredData_NotRebound(data_, filtered) == data_

\* data = processor.filter_data(...): data is rebound to the filtered rows
FilteredData(data_, filtered) == filtered

\* the except clauses an exception of a stage reaches: the stage's own for a
\* ValueError, the outer `except Exception` for any other
ErrorLine(prefix, e) ==
    IF e.exc = "ValueError" THEN Line("error", <<prefix, e.val>>)
    ELSE Line("error", <<"Error: ", e.val>>)

Exit(status, printed) ==
    /\ stdout' = stdout \o printed
    /\ exit_code' = <<status>>
    /\ pc' = "exit"

\* lines 257-259
CheckArgs ==
    /\ pc = "start"
    /\ IF Falsy(argv.filter) /\ Falsy(argv.aggregate)
       THEN Exit(1, <<Line("error",
                           <<"Error: Either --filter or --aggregate must be specified.">>)>>)
       ELSE pc' = "read" /\ UNCHANGED <<stdout, exit_code>>
    /\ UNCHANGED <<argv, file, headers, data, call, ret>>

\* lines 265-269, and 293-295 for an exception of read_csv
ReadCsv ==
    /\ pc = "read"
    /\ LET r == read_csv(file)
       IN  IF Raised(r)
           THEN /\ Exit(1, <<Line("error", <<"Error: ", r.val>>)>>)
                /\ UNCHANGED <<headers, data>>
           ELSE /\ headers' = r.val[1]
                /\ data' = r.val[2]
                /\ IF r.val[2] = <<>>
                   THEN Exit(0, <<Line("text", <<"No data found in CSV file.">>)>>)
                   ELSE pc' = "filter" /\ UNCHANGED <<stdout, exit_code>>
    /\ UNCHANGED <<argv, file, call, ret>>

\* a filter stage that prints its "Filtered by" line (line 276) before it
\* filters (line 275), so that a failing filter_data leaves it on the output
FilterStage_PrintsBeforeFiltering ==
    /\ pc = "filter"
    /\ IF Falsy(argv.filter)
       THEN pc' = "aggregate" /\ UNCHANGED <<data, stdout, exit_code>>
       ELSE LET parsed == parse_filter_condition(argv.filter)
                filtered == IF Raised(parsed) THEN parsed
                            ELSE filter_data(data, parsed.val[1], parsed.val[2],
                                             parsed.val[3])
                early == IF Raised(parsed) THEN <<>>
                         ELSE <<Line("filtered_by", parsed.val)>>
            IN  IF Raised(filtered)
                THEN /\ Exit(1, early \o <<ErrorLine("Filter error: ", filtered)>>)
                     /\ UNCHANGED data
                ELSE /\ data' = FilteredData(data, filtered.val)
                     /\ stdout' = stdout \o early \o
                          <<Line("records_found", <<Len(FilteredData(data, filtered.val))>>),
                            display_table(headers, FilteredData(data, filtered.val))>>
                     /\ pc' = "aggregate"
                     /\ UNCHANGED exit_code
    /\ UNCHANGED <<argv, file, headers, call, ret>>

\* lines 272-281: parse, filter, print the summary and the table
FilterStage ==
    /\ pc = "filter"
    /\ IF Falsy(argv.filter)
       THEN pc' = "aggregate" /\ UNCHANGED <<data, stdout, exit_code>>
       ELSE LET parsed == parse_filter_condition(argv.filter)
                filtered == IF Raised(parsed) THEN parsed
                            ELSE filter_data(data, parsed.val[1], parsed.val[2],
                                             parsed.val[3])
            IN  IF Raised(filtered)
                THEN /\ Exit(1, <<ErrorLine("Filter error: ", filtered)>>)
                     /\ UNCHANGED data
                ELSE /\ data' = FilteredData(data, filtered.val)
                     /\ stdout' = stdout \o
                          <<Line("filtered_by", parsed.val),
                            Line("records_found", <<Len(FilteredData(data, filtered.val))>>),
                            display_table(headers, FilteredData(data, filtered.val))>>
                     /\ pc' = "aggregate"
                     /\ UNCHANGED exit_code
    /\ UNCHANGED <<argv, file, headers, call, ret>>

\* lines 284-291, and the return of main
AggregateStage ==
    /\ pc = "aggregate"
    /\ IF Falsy(argv.aggregate)
       THEN Exit(0, <<>>)
       ELSE LET parsed == parse_aggregation_condition(argv.aggregate)
                result == IF Raised(parsed) THEN parsed
                          ELSE aggregate_data(data, parsed.val[2], parsed.val[1])
            IN  IF Raised(result)
                THEN Exit(1, <<ErrorLine("Aggregation error: ", result)>>)
                ELSE Exit(0, <<display_aggregation_result(parsed.val[2], parsed.val[1],
                                                          result.val)>>)
    /\ UNCHANGED <<argv, file, headers, data, call, ret>>

\* the fields of the input files
FileRecords ==
    {<<a>> : a \in {<<"1">>, <<"3">>}}
    \cup {<<a, b>> : a \in {<<"1">>, <<"3">>}, b \in {<<"3">>, <<"x">>}}

Files ==
    {[kind |-> "missing", records |-> <<>>], [kind |-> "unreadable", records |-> <<>>],
     [kind |-> "csv", records |-> <<>>]}
    \cup {[kind |-> "csv", records |-> <<<<ColA, ColB>>>> \o rows] :
             rows \in SeqsUpTo(FileRecords, MaxFileRows)}

\* --filter: absent, empty, a>1, a=3, b=x, "b < 3", a>5, z=1, a>=1, a
FilterArgs ==
    {None, <<>>,
     <<"a", ">", "1">>, <<"a", "=", "3">>, <<"b", "=", "x">>,
     <<"b", " ", "<", " ", "3">>, <<"a", ">", "5">>, <<"z", "=", "1">>,
     <<"a", ">", "=", "1">>, <<"a">>}

\* --aggregate: absent, avg=a, min=b, max=a, avg=z, sum=a, avg
AggregateArgs ==
    {None,
     <<"a", "v", "g", "=", "a">>, <<"m", "i", "n", "=", "b">>,
     <<"m", "a", "x", "=", "a">>, <<"a", "v", "g", "=", "z">>,
     <<"s", "u", "m", "=", "a">>, <<"a", "v", "g">>}

Init ==
    /\ pc = "start"
    /\ argv \in [filter : FilterArgs, aggregate : AggregateArgs]
    /\ file \in Files
    /\ headers = <<>>
    /\ data = <<>>
    /\ stdout = <<>>
    /\ exit_code = <<>>
    /\ call = <<>>
    /\ ret = [fn |-> "", out |-> Pending]

Next == CheckArgs \/ ReadCsv \/ FilterStage \/ AggregateStage

Spec == Init /\ [][Next]_vars

---------------------------------------------------------------------------
(* The claims about main.                                                  *)

\* the rows read from the file
RowsRead == read_csv(file).val[2]

FilterGiven == ~Falsy(argv.filter)

\* the rows of the file that satisfy the parsed filter condition
Survivors ==
    LET fc == parse_filter_condition(argv.filter).val
    IN  Selection(RowsRead, Satisfying(RowsRead, fc[1], fc[2], fc[3]))

\* the aggregation request computed over rows
Aggregated(rows) ==
    LET ac == parse_aggregation_condition(argv.aggregate).val
    IN  aggregate_data(rows, ac[2], ac[1]).val

SummaryPrinted ==
    pc = "exit" /\ stdout # <<>> /\ stdout[Len(stdout)].kind = "aggregation"

\* C2: when main prints an aggregation summary and a filter string was
\* given, the summary follows the rendered table of the rows that survived
\* the filter and its result is the aggregation over exactly those rows; when
\* no filter string was given the result is the aggregation over all rows
\* read from the file.
C2_AggregatesWhatTheFilterLeft ==
    SummaryPrinted =>
        IF FilterGiven
        THEN /\ Len(stdout) = 4
             /\ stdout[3] = display_table(headers, Survivors)
             /\ data = Survivors
             /\ stdout[4].body[3] = Aggregated(Survivors)
        ELSE /\ Len(stdout) = 1
             /\ data = RowsRead
             /\ stdout[1].body[3] = Aggregated(RowsRead)

\* C2 witness: filter and aggregation both ran, some but not all rows
\* survived, and the result differs from the aggregation over all rows.
C2_Witness ==
    /\ SummaryPrinted
    /\ FilterGiven
    /\ data # <<>>
    /\ Len(data) < Len(RowsRead)
    /\ Returned(aggregate_data(RowsRead, stdout[4].body[2],
                               parse_aggregation_condition(argv.aggregate).val[1]))
    /\ stdout[4].body[3] # Aggregated(RowsRead)

\* the filter stage ran to its end and kept no row
NoSurvivors ==
    /\ Len(stdout) >= 3
    /\ stdout[1].kind = "filtered_by"
    /\ stdout[2] = Line("records_found", <<0>>)

\* C9: aggregate_data on an empty row sequence returns 0 for every
\* registered function and every column name, present anywhere or not; and
\* in main, a filter that leaves no survivor followed by an aggregation with
\* a registered function over any column name ends with result 0 and exit
\* status 0.
C9_EmptyAggregatesToZero ==
    /\ \A f \in {AVG, MIN, MAX} : \A c \in {ColA, ColB, ColZ} :
          /\ Returned(aggregate_data(<<>>, c, f))
          /\ aggregate_data(<<>>, c, f).val.num = 0
    /\ (/\ pc = "exit"
        /\ NoSurvivors
        /\ ~Falsy(argv.aggregate)
        /\ Returned(parse_aggregation_condition(argv.aggregate))
        /\ parse_aggregation_condition(argv.aggregate).val[1] \in {AVG, MIN, MAX})
       => /\ exit_code = <<0>>
          /\ stdout[Len(stdout)].kind = "aggregation"
          /\ stdout[Len(stdout)].body[3].num = 0

\* C9 witness: no survivor, then an aggregation over a column the file does
\* not have, ended with status 0.
C9_Witness ==
    /\ pc = "exit"
    /\ NoSurvivors
    /\ SummaryPrinted
    /\ stdout[Len(stdout)].body[2] = ColZ
    /\ exit_code = <<0>>

\* main ended with status 1 after the file was read and gave rows: the error
\* was raised while parsing, filtering or aggregating
StageFailed ==
    /\ pc = "exit"
    /\ exit_code = <<1>>
    /\ FilterGiven \/ ~Falsy(argv.aggregate)
    /\ Returned(read_csv(file))
    /\ RowsRead # <<>>

\* a line of one of the kinds is on the output
Rendered(kinds) == \E i \in 1..Len(stdout) : stdout[i].kind \in kinds

\* the filter string does not parse, or filtering the rows read raises
FilterFails ==
    /\ FilterGiven
    /\ LET parsed == parse_filter_condition(argv.filter)
       IN  \/ Raised(parsed)
           \/ Raised(filter_data(RowsRead, parsed.val[1], parsed.val[2],
                                 parsed.val[3]))

\* C12 as stated: in every run of main that ends with status 1 on an error
\* raised while parsing, filtering or aggregating, no filtered table and no
\* aggregation summary has been rendered, the run whose filter stage
\* succeeds and whose aggregation stage fails included.
C12_NoPartialResults ==
    StageFailed => ~Rendered({"table", "aggregation"})

\* C12 amended: a run of main that ends with status 1 on an error raised
\* while parsing, filtering or aggregating ends with the error line and has
\* rendered no aggregation summary; when the filter stage failed, or no
\* filter was given, the error line is all its output; when the filter stage
\* succeeded and the aggregation stage failed, the "Filtered by" line, the
\* "Records found" line and the table of the surviving rows stand before the
\* error line.
C12_FilterOutputPrecedesAggregationError ==
    StageFailed =>
        /\ ~Rendered({"aggregation"})
        /\ stdout[Len(stdout)].kind = "error"
        /\ IF FilterGiven /\ ~FilterFails
           THEN /\ Len(stdout) = 4
                /\ stdout[1] = Line("filtered_by", parse_filter_condition(argv.filter).val)
                /\ stdout[2] = Line("records_found", <<Len(Survivors)>>)
                /\ stdout[3] = display_table(headers, Survivors)
                /\ Raised(parse_aggregation_condition(argv.aggregate))
                      \/ Raised(aggregate_data(Survivors,
                               parse_aggregation_condition(argv.aggregate).val[2],
                               parse_aggregation_condition(argv.aggregate).val[1]))
           ELSE Len(stdout) = 1

\* C12 witness: the filter stage rendered a table of surviving rows, then
\* the aggregation stage failed and main ended with status 1.
C12_Witness ==
    /\ StageFailed
    /\ FilterGiven
    /\ Len(stdout) = 4
    /\ stdout[3].kind = "table"
    /\ Survivors # <<>>
    /\ stdout[4].kind = "error"

===========================================================================
